---- MODULE Spec2Model ----
(***************************************************************************)
(* Model of subgen: the single-script pipeline (src/subgen.py) and the     *)
(* package pipeline (src/subgenx).  Paths and URLs are strings, handled    *)
(* character by character as the Python library functions handle them.    *)
(* The file system maps the path of every existing regular file to its    *)
(* modification time; the external tools (ffmpeg, yt-dlp, WhisperX) write  *)
(* files stamped with a clock that advances on every write.  log is what   *)
(* a run prints and which external tools it invokes, in order.            *)
(***************************************************************************)
EXTENDS Integers, Sequences, FiniteSets, TLC

VARIABLES variant, locations, force, fs, clock, run, pc, loc_i,
          location_queue, results, file_paths, file_i, mp3_path, log

vars == <<variant, locations, force, fs, clock, run, pc, loc_i,
          location_queue, results, file_paths, file_i, mp3_path, log>>

(***************************************************************************)
(* Bounds.                                                                 *)
(***************************************************************************)
MaxLocs == 2

(***************************************************************************)
(* Strings.                                                                *)
(***************************************************************************)
\* s[i-1:j] of Python: the characters i..j, clamped to the string.
Slice(s, i, j) ==
    LET lo == IF i < 1 THEN 1 ELSE i
        hi == IF j > Len(s) THEN Len(s) ELSE j
    IN  SubSeq(s, lo, hi)

Char(s, i) == Slice(s, i, i)

From(s, i) == SubSeq(s, i, Len(s))

\* str.rfind(c): the last index of character c in s, 0 when there is none.
RECURSIVE RFindFrom(_, _, _)
RFindFrom(s, c, i) ==
    IF i = 0 THEN 0
    ELSE IF Char(s, i) = c THEN i ELSE RFindFrom(s, c, i - 1)

RFind(s, c) == RFindFrom(s, c, Len(s))

\* str.find over a set of characters, from index i: the first index whose
\* character is in cs, Len(s) + 1 when there is none.
RECURSIVE FindAny(_, _, _)
FindAny(s, cs, i) ==
    IF i > Len(s) THEN Len(s) + 1
    ELSE IF Char(s, i) \in cs THEN i ELSE FindAny(s, cs, i + 1)

\* needle in haystack
Contains(haystack, needle) ==
    \E i \in 1..(Len(haystack) - Len(needle) + 1) :
        Slice(haystack, i, i + Len(needle) - 1) = needle

StartsWith(s, prefix) ==
    Len(prefix) <= Len(s) /\ Slice(s, 1, Len(prefix)) = prefix

UpperChars == <<"A", "B", "C", "D", "E", "F", "G", "H", "I", "J", "K", "L", "M",
                "N", "O", "P", "Q", "R", "S", "T", "U", "V", "W", "X", "Y", "Z">>

LowerChars == <<"a", "b", "c", "d", "e", "f", "g", "h", "i", "j", "k", "l", "m",
                "n", "o", "p", "q", "r", "s", "t", "u", "v", "w", "x", "y", "z">>

ToLower ==
    [c \in {UpperChars[k] : k \in 1..Len(UpperChars)} |->
        LowerChars[CHOOSE k \in 1..Len(UpperChars) : UpperChars[k] = c]]

LowerChar(c) == IF c \in DOMAIN ToLower THEN ToLower[c] ELSE c

\* str.lower()
RECURSIVE lower(_)
lower(s) == IF s = "" THEN "" ELSE LowerChar(Head(s)) \o lower(Tail(s))

\* str.rstrip("/")
RECURSIVE RStripSep(_)
RStripSep(s) ==
    IF s /= "" /\ Char(s, Len(s)) = "/" THEN RStripSep(Slice(s, 1, Len(s) - 1))
    ELSE s

(***************************************************************************)
(* os.path                                                                 *)
(***************************************************************************)
\* os.path.splitext: the extension starts at the last dot of the last
\* component, unless only dots precede it in that component.
RECURSIVE ExtSplitAt(_, _, _)
ExtSplitAt(p, filenameIndex, dotIndex) ==
    IF filenameIndex >= dotIndex THEN 0
    ELSE IF Char(p, filenameIndex) /= "." THEN dotIndex
    ELSE ExtSplitAt(p, filenameIndex + 1, dotIndex)

splitext(p) ==
    LET sepIndex == RFind(p, "/")
        dotIndex == RFind(p, ".")
        at == IF dotIndex > sepIndex THEN ExtSplitAt(p, sepIndex + 1, dotIndex) ELSE 0
    IN  IF at = 0 THEN <<p, "">>
        ELSE <<Slice(p, 1, at - 1), From(p, at)>>

basename(p) == From(p, RFind(p, "/") + 1)

dirname(p) ==
    LET head == Slice(p, 1, RFind(p, "/"))
    IN  IF RStripSep(head) = "" THEN head ELSE RStripSep(head)

join(a, b) ==
    IF StartsWith(b, "/") THEN b
    ELSE IF a = "" \/ Char(a, Len(a)) = "/" THEN a \o b
    ELSE a \o "/" \o b

(***************************************************************************)
(* urllib.parse and the classifier predicates.                             *)
(***************************************************************************)
Digits == {"0", "1", "2", "3", "4", "5", "6", "7", "8", "9"}

Letters == {UpperChars[k] : k \in 1..Len(UpperChars)} \cup
           {LowerChars[k] : k \in 1..Len(LowerChars)}

scheme_chars == Letters \cup Digits \cup {"+", "-", "."}

\* urllib.parse.urlparse(url).netloc: a scheme is split off at the first
\* colon when everything before it is a scheme character; the network
\* location is what follows a leading "//" up to the next "/", "?" or "#".
urlparse_netloc(url) ==
    LET i == FindAny(url, {":"}, 1)
        has_scheme == /\ i > 1
                      /\ i <= Len(url)
                      /\ Char(url, 1) \in Letters
                      /\ \A k \in 1..(i - 1) : Char(url, k) \in scheme_chars
        rest == IF has_scheme THEN From(url, i + 1) ELSE url
    IN  IF Slice(rest, 1, 2) = "//"
        THEN Slice(rest, 3, FindAny(rest, {"/", "?", "#"}, 3) - 1)
        ELSE ""

youtube_domains == <<"youtube.com", "youtu.be">>

is_youtube_url(url) ==
    \E netloc \in {lower(urlparse_netloc(url))} :
        \E k \in 1..Len(youtube_domains) : Contains(netloc, youtube_domains[k])

audio_extensions == {".mp3", ".m4a", ".wav", ".flac", ".aac", ".ogg"}

video_extensions == {".mp4", ".mkv", ".avi", ".mov"}

is_audio_ext(ext) == \E e \in {ext} : lower(e) \in audio_extensions

is_video_ext(ext) == \E e \in {ext} : lower(e) \in video_extensions

(***************************************************************************)
(* The file system.  fs maps the key of every existing regular file to its *)
(* modification time.  Directories are fixed.                              *)
(***************************************************************************)
Cwd == "/w"

\* The file a path names: relative to the working directory, without a
\* leading "./".
RECURSIVE Key(_)
Key(p) ==
    IF StartsWith(p, Cwd \o "/") THEN Key(From(p, Len(Cwd) + 2))
    ELSE IF StartsWith(p, "./") THEN Key(From(p, 3))
    ELSE p

abspath(p) == IF StartsWith(p, "/") THEN p ELSE join(Cwd, Key(p))

Dirs == {"d", "d/s", "e"}

\* The directory entries the walk can meet, as (root, file), in the order
\* the operating system enumerates them: top-down, a directory's own files
\* before those of its subdirectories.
Tree == << <<"d", "b.mp3">>, <<"d", "b.mp4">>, <<"d", "b.srt">>,
           <<"d", "note.txt">>, <<"d/s", "a.MKV">>, <<"d/s", "a.mp3">>,
           <<"d/s", "a.srt">>, <<"e", "note.txt">> >>

exists(f, p) == Key(p) \in DOMAIN f

isfile(f, p) == Key(p) \in DOMAIN f

isdir(p) == Key(RStripSep(p)) \in Dirs

getmtime(f, p) == f[Key(p)]

\* The file system after an external tool has written path p at time t.
Written(f, p, t) == (Key(p) :> t) @@ f

\* os.walk(location), flattened to the (root, file) pairs it yields.
os_walk(f, location) ==
    LET top == Key(RStripSep(location))
        root(e) == IF e[1] = top THEN location
                   ELSE IF StartsWith(e[1], top \o "/")
                   THEN join(location, From(e[1], Len(top) + 2))
                   ELSE e[1]
        under(e) == /\ \/ Key(e[1]) = top
                       \/ StartsWith(Key(e[1]), top \o "/")
                    /\ Key(join(e[1], e[2])) \in DOMAIN f
    IN  SelectSeq([k \in 1..Len(Tree) |-> <<root(Tree[k]), Tree[k][2]>>], under)

is_audio_file(f, path) == isfile(f, path) /\ is_audio_ext(splitext(path)[2])

is_video_file(f, path) == isfile(f, path) /\ is_video_ext(splitext(path)[2])

(***************************************************************************)
(* Inputs.                                                                 *)
(***************************************************************************)
LocationUniverse ==
    {"a.mp3", "d/b.mp4", "d", "d/s", "e", "d/note.txt", "not_a_real_path",
     "https://youtu.be/xyz", "https://notyoutube.com/v",
     "https://example.com/youtube.com/video"}

LocationLists ==
    UNION {[1..n -> LocationUniverse] : n \in 1..MaxLocs}

\* The media tree before the first run.  The media files are older than
\* the clock; t = 0 leaves the derived files out, otherwise d/b.mp3 and
\* a.srt exist with modification time t (older than, equal to or newer
\* than their sources).
InitialFS(t) ==
    LET media == [k \in {"a.mp3", "d/b.mp4", "d/s/a.MKV"} |-> 2]
        other == [k \in {"d/note.txt", "e/note.txt"} |-> 1]
        derived == [k \in IF t = 0 THEN {} ELSE {"d/b.mp3", "a.srt"} |-> t]
    IN  media @@ other @@ derived

Event(ev, arg, out) == [ev |-> ev, arg |-> arg, out |-> out]

Init ==
    /\ variant \in {"subgen", "subgenx"}
    /\ locations \in LocationLists
    /\ force \in BOOLEAN
    /\ \E t \in 0..3 : fs = InitialFS(t)
    /\ clock = 3
    /\ run = 1
    /\ pc = "resolve"
    /\ loc_i = 1
    /\ location_queue = <<>>
    /\ results = <<>>
    /\ file_paths = <<>>
    /\ file_i = 1
    /\ mp3_path = ""
    /\ log = <<>>

(***************************************************************************)
(* subgenx: the sources (src/subgenx/sorcerer.py).                         *)
(***************************************************************************)
Str(path) == [tag |-> "str", val |-> path]

List(paths) == [tag |-> "list", val |-> paths]

None == [tag |-> "none", val |-> <<>>]

VideoSource_mp3_path(location) == splitext(location)[1] \o ".mp3"

\* Mutant: the gate compares with >= and reuses an mp3 as old as its video.
VideoSource_up_to_date_ge(f, location) ==
    /\ exists(f, VideoSource_mp3_path(location))
    /\ getmtime(f, VideoSource_mp3_path(location)) >= getmtime(f, location)

VideoSource_up_to_date(f, location) ==
    /\ exists(f, VideoSource_mp3_path(location))
    /\ getmtime(f, VideoSource_mp3_path(location)) > getmtime(f, location)

\* yt-dlp's prepare_filename: "%(title)s.%(ext)s" of the remote metadata.
YoutubeSource_audio_file(location) == "xyz.webm"

\* Mutant: the subdirectories the walk meets are returned as further
\* locations, in place of the files.
DirectorySource_handle_subdirs(f, location) ==
    LET below(e) == e[1] /= location
        entries == SelectSeq(os_walk(f, location), below)
    IN  List([k \in 1..Len(entries) |-> entries[k][1]])

DirectorySource_handle(f, location) ==
    LET walk == os_walk(f, location)
        full_path == [k \in 1..Len(walk) |-> join(walk[k][1], walk[k][2])]
        keep(path) == is_audio_file(f, path) \/ is_video_file(f, path)
        audio_files == SelectSeq(full_path, keep)
    IN  IF Len(audio_files) = 1 THEN Str(audio_files[1]) ELSE List(audio_files)

Sorcerer_sources ==
    <<"AudioSource", "VideoSource", "YoutubeSource", "DirectorySource">>

can_handle(source, f, location) ==
    CASE source = "AudioSource" -> is_audio_file(f, location)
      [] source = "VideoSource" -> is_video_file(f, location)
      [] source = "YoutubeSource" -> is_youtube_url(location)
      [] source = "DirectorySource" -> isdir(location)

\* _handle_single_location: the first source that can handle the location.
Sorcerer_source_for(f, location) ==
    IF can_handle(Sorcerer_sources[1], f, location) THEN Sorcerer_sources[1]
    ELSE IF can_handle(Sorcerer_sources[2], f, location) THEN Sorcerer_sources[2]
    ELSE IF can_handle(Sorcerer_sources[3], f, location) THEN Sorcerer_sources[3]
    ELSE IF can_handle(Sorcerer_sources[4], f, location) THEN Sorcerer_sources[4]
    ELSE "None"

\* The body of handle_location's loop, given the result for the location
\* popped from the queue.
handle_location_results(res, result) ==
    IF result.tag = "str" THEN Append(res, result.val) ELSE res

handle_location_queue(queue, result) ==
    IF result.tag = "list" THEN Tail(queue) \o result.val ELSE Tail(queue)

\* Mutant: paths already in the list are not added again.
main_extend_dedupe(paths, result) ==
    LET fresh(x) == \A k \in 1..Len(paths) : paths[k] /= x
    IN  paths \o SelectSeq(result, fresh)

\* main: file_paths.extend(result)
main_extend(paths, result) == paths \o result

InLoop(source) ==
    /\ variant = "subgenx"
    /\ pc = "handle"
    /\ location_queue /= <<>>
    /\ Sorcerer_source_for(fs, Head(location_queue)) = source

Sorcerer_handle_location ==
    /\ variant = "subgenx"
    /\ pc = "resolve"
    /\ loc_i <= Len(locations)
    /\ location_queue' = <<locations[loc_i]>>
    /\ results' = <<>>
    /\ pc' = "handle"
    /\ UNCHANGED <<variant, locations, force, fs, clock, run, loc_i,
                   file_paths, file_i, mp3_path, log>>

AudioSource_handle ==
    /\ InLoop("AudioSource")
    /\ LET result == Str(Head(location_queue))
       IN  /\ results' = handle_location_results(results, result)
           /\ location_queue' = handle_location_queue(location_queue, result)
    /\ UNCHANGED <<variant, locations, force, fs, clock, run, pc, loc_i,
                   file_paths, file_i, mp3_path, log>>

VideoSource_handle ==
    /\ InLoop("VideoSource")
    /\ LET location == Head(location_queue)
           mp3 == VideoSource_mp3_path(location)
           result == Str(mp3)
       IN  IF VideoSource_up_to_date(fs, location)
           THEN /\ log' = Append(log, Event("existing_mp3", location, mp3))
                /\ results' = handle_location_results(results, result)
                /\ location_queue' = handle_location_queue(location_queue, result)
                /\ UNCHANGED <<fs, clock, pc>>
           ELSE \E ok \in BOOLEAN :
                /\ log' = Append(log, Event("ffmpeg", location, mp3))
                /\ IF ok
                   THEN /\ clock' = clock + 1
                        /\ fs' = Written(fs, mp3, clock + 1)
                        /\ results' = handle_location_results(results, result)
                        /\ location_queue' =
                               handle_location_queue(location_queue, result)
                        /\ pc' = pc
                   ELSE /\ pc' = "crashed"
                        /\ UNCHANGED <<fs, clock, results, location_queue>>
    /\ UNCHANGED <<variant, locations, force, run, loc_i, file_paths, file_i,
                   mp3_path>>

YoutubeSource_handle ==
    /\ InLoop("YoutubeSource")
    /\ LET location == Head(location_queue)
           audio_file == YoutubeSource_audio_file(location)
           result == Str(audio_file)
       IN  \E ok \in BOOLEAN :
           /\ log' = Append(log, Event("yt_dlp", location, audio_file))
           /\ IF ok
              THEN /\ clock' = clock + 1
                   /\ fs' = Written(fs, audio_file, clock + 1)
                   /\ results' = handle_location_results(results, result)
                   /\ location_queue' =
                          handle_location_queue(location_queue, result)
                   /\ pc' = pc
              ELSE /\ pc' = "crashed"
                   /\ UNCHANGED <<fs, clock, results, location_queue>>
    /\ UNCHANGED <<variant, locations, force, run, loc_i, file_paths, file_i,
                   mp3_path>>

DirectorySource_step ==
    /\ InLoop("DirectorySource")
    /\ \E result \in {DirectorySource_handle(fs, Head(location_queue))} :
           /\ results' = handle_location_results(results, result)
           /\ location_queue' = handle_location_queue(location_queue, result)
    /\ UNCHANGED <<variant, locations, force, fs, clock, run, pc, loc_i,
                   file_paths, file_i, mp3_path, log>>

NoSource_step ==
    /\ InLoop("None")
    /\ results' = handle_location_results(results, None)
    /\ location_queue' = handle_location_queue(location_queue, None)
    /\ UNCHANGED <<variant, locations, force, fs, clock, run, pc, loc_i,
                   file_paths, file_i, mp3_path, log>>

\* handle_location returns (results, or None when there are none) and main
\* extends file_paths or reports the location.
Sorcerer_return ==
    /\ variant = "subgenx"
    /\ pc = "handle"
    /\ location_queue = <<>>
    /\ IF results /= <<>>
       THEN /\ file_paths' = main_extend(file_paths, results)
            /\ log' = log
       ELSE /\ file_paths' = file_paths
            /\ log' = Append(log, Event("could_not_handle", locations[loc_i], ""))
    /\ results' = <<>>
    /\ loc_i' = loc_i + 1
    /\ pc' = "resolve"
    /\ UNCHANGED <<variant, locations, force, fs, clock, run, location_queue,
                   file_i, mp3_path>>

(***************************************************************************)
(* subgenx: main and transcribe_with_whisperx.                             *)
(***************************************************************************)
\* --output_dir and --output_format as argparse defaults them.
OutputDir == "."

OutputFormat == "srt"

transcribe_output_file(audio_path) ==
    LET output_dir == IF OutputDir /= "" THEN OutputDir ELSE dirname(audio_path)
        base_name == splitext(basename(audio_path))[1]
    IN  join(output_dir, base_name \o "." \o OutputFormat)

\* Mutant: the comparison is the wrong way round.
transcribe_up_to_date_lt(f, audio_path) ==
    /\ exists(f, transcribe_output_file(audio_path))
    /\ getmtime(f, transcribe_output_file(audio_path)) < getmtime(f, audio_path)

transcribe_up_to_date(f, audio_path) ==
    /\ exists(f, transcribe_output_file(audio_path))
    /\ getmtime(f, transcribe_output_file(audio_path)) > getmtime(f, audio_path)

\* Mutant: the force flag is ignored.
transcribe_skips_unforced(f, audio_path, forced) ==
    transcribe_up_to_date(f, audio_path)

transcribe_skips(f, audio_path, forced) ==
    transcribe_up_to_date(f, audio_path) /\ ~forced

main_check_files ==
    /\ variant = "subgenx"
    /\ pc = "resolve"
    /\ loc_i > Len(locations)
    /\ IF Len(file_paths) = 0
       THEN /\ pc' = "exit1"
            /\ log' = Append(log, Event("no_valid_files", "", ""))
       ELSE /\ pc' = "transcribe"
            /\ log' = log
    /\ file_i' = 1
    /\ UNCHANGED <<variant, locations, force, fs, clock, run, loc_i,
                   location_queue, results, file_paths, mp3_path>>

transcribe_with_whisperx ==
    /\ variant = "subgenx"
    /\ pc = "transcribe"
    /\ file_i <= Len(file_paths)
    /\ LET audio_path == file_paths[file_i]
           output_file == transcribe_output_file(audio_path)
       IN  IF transcribe_skips(fs, audio_path, force)
           THEN /\ log' = Append(log, Event("skipping", audio_path, output_file))
                /\ file_i' = file_i + 1
                /\ UNCHANGED <<fs, clock, pc>>
           ELSE \E ok \in BOOLEAN :
                /\ log' = Append(log, Event("whisperx", audio_path, output_file))
                /\ IF ok
                   THEN /\ clock' = clock + 1
                        /\ fs' = Written(fs, output_file, clock + 1)
                        /\ file_i' = file_i + 1
                        /\ pc' = pc
                   ELSE /\ pc' = "crashed"
                        /\ UNCHANGED <<fs, clock, file_i>>
    /\ UNCHANGED <<variant, locations, force, run, loc_i, location_queue,
                   results, file_paths, mp3_path>>

main_done ==
    /\ variant = "subgenx"
    /\ pc = "transcribe"
    /\ file_i > Len(file_paths)
    /\ pc' = "done"
    /\ UNCHANGED <<variant, locations, force, fs, clock, run, loc_i,
                   location_queue, results, file_paths, file_i, mp3_path, log>>

(***************************************************************************)
(* subgen.py.                                                              *)
(***************************************************************************)
add_file(paths, file) ==
    LET ext == splitext(file)[2]
    IN  IF is_audio_ext(ext) \/ is_video_ext(ext) THEN Append(paths, file)
        ELSE paths

add_folder_files(paths, f, folder) ==
    LET walk == os_walk(f, folder)
        keep(e) == LET ext == splitext(e[2])[2]
                   IN  is_audio_ext(ext) \/ is_video_ext(ext)
        hits == SelectSeq(walk, keep)
    IN  paths \o [k \in 1..Len(hits) |-> join(hits[k][1], hits[k][2])]

convert_mp3_path(input_path) == splitext(input_path)[1] \o ".mp3"

convert_up_to_date(f, input_path) ==
    /\ exists(f, convert_mp3_path(input_path))
    /\ getmtime(f, convert_mp3_path(input_path)) > getmtime(f, input_path)

subgen_output_file(audio_path) ==
    LET output_dir == dirname(abspath(audio_path))
        base_name == splitext(basename(audio_path))[1]
    IN  join(output_dir, base_name \o "." \o OutputFormat)

subgen_up_to_date(f, audio_path) ==
    /\ exists(f, subgen_output_file(audio_path))
    /\ getmtime(f, subgen_output_file(audio_path)) > getmtime(f, audio_path)

subgen_skips(f, audio_path, forced) ==
    subgen_up_to_date(f, audio_path) /\ ~forced

subgen_add_location ==
    /\ variant = "subgen"
    /\ pc = "resolve"
    /\ loc_i <= Len(locations)
    /\ LET file == locations[loc_i]
       IN  IF isfile(fs, file)
           THEN /\ file_paths' = add_file(file_paths, file)
                /\ log' = log
           ELSE IF isdir(file)
           THEN /\ file_paths' = add_folder_files(file_paths, fs, file)
                /\ log' = log
           ELSE /\ file_paths' = file_paths
                /\ log' = Append(log, Event("invalid_path", file, ""))
    /\ loc_i' = loc_i + 1
    /\ UNCHANGED <<variant, locations, force, fs, clock, run, pc,
                   location_queue, results, file_i, mp3_path>>

subgen_check_files ==
    /\ variant = "subgen"
    /\ pc = "resolve"
    /\ loc_i > Len(locations)
    /\ IF Len(file_paths) = 0
       THEN /\ pc' = "exit1"
            /\ log' = Append(log, Event("no_valid_files", "", ""))
       ELSE /\ pc' = "convert"
            /\ log' = log
    /\ file_i' = 1
    /\ UNCHANGED <<variant, locations, force, fs, clock, run, loc_i,
                   location_queue, results, file_paths, mp3_path>>

convert_to_mp3 ==
    /\ variant = "subgen"
    /\ pc = "convert"
    /\ file_i <= Len(file_paths)
    /\ LET input_path == file_paths[file_i]
           ext == splitext(input_path)[2]
           mp3 == convert_mp3_path(input_path)
       IN  IF is_audio_ext(ext)
           THEN /\ log' = Append(log, Event("existing_audio", input_path, input_path))
                /\ mp3_path' = input_path
                /\ pc' = "transcribe"
                /\ UNCHANGED <<fs, clock>>
           ELSE IF is_video_ext(ext)
           THEN IF convert_up_to_date(fs, input_path)
                THEN /\ log' = Append(log, Event("existing_mp3", input_path, mp3))
                     /\ mp3_path' = mp3
                     /\ pc' = "transcribe"
                     /\ UNCHANGED <<fs, clock>>
                ELSE \E ok \in BOOLEAN :
                     /\ log' = Append(log, Event("ffmpeg", input_path, mp3))
                     /\ IF ok
                        THEN /\ clock' = clock + 1
                             /\ fs' = Written(fs, mp3, clock + 1)
                             /\ mp3_path' = mp3
                             /\ pc' = "transcribe"
                        ELSE /\ pc' = "crashed"
                             /\ UNCHANGED <<fs, clock, mp3_path>>
           ELSE /\ pc' = "crashed"
                /\ UNCHANGED <<fs, clock, mp3_path, log>>
    /\ UNCHANGED <<variant, locations, force, run, loc_i, location_queue,
                   results, file_paths, file_i>>

subgen_transcribe_with_whisperx ==
    /\ variant = "subgen"
    /\ pc = "transcribe"
    /\ LET audio_path == mp3_path
           output_file == subgen_output_file(audio_path)
       IN  IF subgen_skips(fs, audio_path, force)
           THEN /\ log' = Append(log, Event("skipping", audio_path, output_file))
                /\ file_i' = file_i + 1
                /\ pc' = "convert"
                /\ UNCHANGED <<fs, clock>>
           ELSE \E returncode \in {0, 1, 127} :
                /\ log' = Append(log, Event("whisperx", audio_path, output_file))
                /\ IF returncode = 0
                   THEN /\ clock' = clock + 1
                        /\ fs' = Written(fs, output_file, clock + 1)
                        /\ file_i' = file_i + 1
                        /\ pc' = "convert"
                   ELSE /\ pc' = "exit1"
                        /\ UNCHANGED <<fs, clock, file_i>>
    /\ mp3_path' = ""
    /\ UNCHANGED <<variant, locations, force, run, loc_i, location_queue,
                   results, file_paths>>

subgen_done ==
    /\ variant = "subgen"
    /\ pc = "convert"
    /\ file_i > Len(file_paths)
    /\ pc' = "done"
    /\ UNCHANGED <<variant, locations, force, fs, clock, run, loc_i,
                   location_queue, results, file_paths, file_i, mp3_path, log>>

(***************************************************************************)
(* A second run of the same command line, after the first has completed,   *)
(* on the file system the first run left.                                  *)
(***************************************************************************)
Rerun ==
    /\ pc = "done"
    /\ run = 1
    /\ run' = 2
    /\ pc' = "resolve"
    /\ loc_i' = 1
    /\ location_queue' = <<>>
    /\ results' = <<>>
    /\ file_paths' = <<>>
    /\ file_i' = 1
    /\ mp3_path' = ""
    /\ log' = <<>>
    /\ UNCHANGED <<variant, locations, force, fs, clock>>

Next ==
    \/ Sorcerer_handle_location
    \/ AudioSource_handle
    \/ VideoSource_handle
    \/ YoutubeSource_handle
    \/ DirectorySource_step
    \/ NoSource_step
    \/ Sorcerer_return
    \/ main_check_files
    \/ transcribe_with_whisperx
    \/ main_done
    \/ subgen_add_location
    \/ subgen_check_files
    \/ convert_to_mp3
    \/ subgen_transcribe_with_whisperx
    \/ subgen_done
    \/ Rerun

Spec == Init /\ [][Next]_vars

\* The worklist loop of handle_location and whether it is running.  The
\* loop always has a step to take: a queued location is taken by the first
\* source that can handle it or by none, and an empty queue returns.
HandleLoop ==
    \/ AudioSource_handle
    \/ VideoSource_handle
    \/ YoutubeSource_handle
    \/ DirectorySource_step
    \/ NoSource_step
    \/ Sorcerer_return

HandleLoopEnabled == variant = "subgenx" /\ pc = "handle"

\* The program is a single sequential process: while the loop is running
\* it takes the loop's next step.  This is WF_vars(HandleLoop) written out,
\* with HandleLoopEnabled for ENABLED <<HandleLoop>>_vars.
HandleLoopFair == []<>(~HandleLoopEnabled) \/ []<><<HandleLoop>>_vars

FairSpec == Init /\ [][Next]_vars /\ HandleLoopFair

(***************************************************************************)
(* Properties.                                                             *)
(***************************************************************************)
\* The derived artifact exists and is strictly newer than its source.
Fresh(f, source, derived) ==
    Key(derived) \in DOMAIN f /\ f[Key(derived)] > f[Key(source)]

\* This step prints or invokes exactly the event given.
Logged(ev, arg, out) == log' = Append(log, Event(ev, arg, out))

HasEvent(ev) == \E k \in 1..Len(log) : log[k].ev = ev

\* The program is about to decide whether to transcode a video file.
TranscodeSite ==
    \/ /\ variant = "subgenx"
       /\ pc = "handle"
       /\ location_queue /= <<>>
       /\ is_video_file(fs, Head(location_queue))
       /\ ~is_audio_file(fs, Head(location_queue))
    \/ /\ variant = "subgen"
       /\ pc = "convert"
       /\ file_i <= Len(file_paths)
       /\ is_video_ext(splitext(file_paths[file_i])[2])

TranscodeSource ==
    IF variant = "subgenx" THEN Head(location_queue) ELSE file_paths[file_i]

Mp3Of(path) == splitext(path)[1] \o ".mp3"

\* The program is about to decide whether to transcribe an audio file.
TranscribeSite ==
    /\ pc = "transcribe"
    /\ variant = "subgenx" => file_i <= Len(file_paths)

TranscribeSource ==
    IF variant = "subgenx" THEN file_paths[file_i] ELSE mp3_path

SubtitleOf(audio_path) ==
    IF variant = "subgenx" THEN transcribe_output_file(audio_path)
    ELSE subgen_output_file(audio_path)

\* C1: at the transcoding gate and, with force = false, at the
\* transcription gate, the derived artifact is reused (nothing is invoked,
\* no file is written) exactly when it exists and is strictly newer than
\* its source; otherwise (equal times, older, missing) the external tool is
\* invoked on the source.
C1_FreshnessGate ==
    [][ /\ TranscodeSite =>
             LET src == TranscodeSource
             IN  IF Fresh(fs, src, Mp3Of(src))
                 THEN Logged("existing_mp3", src, Mp3Of(src)) /\ fs' = fs
                 ELSE Logged("ffmpeg", src, Mp3Of(src))
        /\ (TranscribeSite /\ ~force) =>
             LET audio == TranscribeSource
             IN  IF Fresh(fs, audio, SubtitleOf(audio))
                 THEN Logged("skipping", audio, SubtitleOf(audio)) /\ fs' = fs
                 ELSE Logged("whisperx", audio, SubtitleOf(audio))
      ]_vars

\* Both gates have reused a derived file and the transcription engine has
\* also been invoked, in a first run without force.
C1_Witness ==
    /\ run = 1
    /\ ~force
    /\ HasEvent("existing_mp3")
    /\ HasEvent("skipping")
    /\ HasEvent("whisperx")
    /\ HasEvent("ffmpeg")

\* C2: with force = true every processed file is transcribed, up to date or
\* not, while a video's mp3 is still reused exactly when it is fresh.
C2_ForceTranscriptionOnly ==
    [][ /\ (TranscribeSite /\ force) =>
             LET audio == TranscribeSource
             IN  Logged("whisperx", audio, SubtitleOf(audio))
        /\ (TranscodeSite /\ force) =>
             LET src == TranscodeSource
             IN  IF Fresh(fs, src, Mp3Of(src))
                 THEN Logged("existing_mp3", src, Mp3Of(src)) /\ fs' = fs
                 ELSE Logged("ffmpeg", src, Mp3Of(src))
      ]_vars

\* A forced second run: every subtitle is up to date after the first run,
\* the engine has been invoked again and an mp3 has been reused.
C2_Witness ==
    /\ run = 2
    /\ force
    /\ HasEvent("whisperx")
    /\ HasEvent("existing_mp3")
    /\ ~HasEvent("skipping")

LocalOnly == \A k \in 1..Len(locations) : ~is_youtube_url(locations[k])

\* C3: a second run with force = false on local files and directories, after
\* a first run that completed, never invokes the transcription engine.
C3_Idempotent ==
    (run = 2 /\ ~force /\ LocalOnly) => ~HasEvent("whisperx")

\* A second run without force has gone through all of its files, more than
\* one of them, and skipped each.
C3_Witness ==
    /\ run = 2
    /\ ~force
    /\ LocalOnly
    /\ pc = "done"
    /\ Len(file_paths) >= 2
    /\ Cardinality({k \in 1..Len(log) : log[k].ev = "skipping"}) = Len(file_paths)

Range(seq) == {seq[k] : k \in 1..Len(seq)}

IsPrefix(a, b) == Len(a) <= Len(b) /\ SubSeq(b, 1, Len(a)) = a

Compatible(path) ==
    is_audio_ext(splitext(path)[2]) \/ is_video_ext(splitext(path)[2])

\* No resolver accepts the location: it is no existing audio or video
\* file, no directory and no URL the program takes for a remote video
\* (subgen.py has no remote resolver).
Unaccepted(location) ==
    /\ ~(isfile(fs, location) /\ Compatible(location))
    /\ ~isdir(location)
    /\ ~(variant = "subgenx" /\ is_youtube_url(location))

ReportEvent == IF variant = "subgenx" THEN "could_not_handle" ELSE "invalid_path"

Reported(location) ==
    \E k \in 1..Len(log) : log[k].ev = ReportEvent /\ log[k].arg = location

\* Every supplied location has been resolved.
Resolved == loc_i > Len(locations)

\* The compatible files that exist below a directory, as a set and in the
\* order of enumeration.
CompatibleDescendants(f, dir) ==
    {k \in DOMAIN f : StartsWith(k, Key(dir) \o "/") /\ Compatible(k)}

CompatibleList(f, dir) ==
    LET paths == [k \in 1..Len(Tree) |-> Tree[k][1] \o "/" \o Tree[k][2]]
        hit(x) == x \in CompatibleDescendants(f, dir)
    IN  SelectSeq(paths, hit)

\* The path is in the final list, as it is, as the mp3 made of it, or as
\* the video it was made of.
Represented(path) ==
    \/ path \in Range(file_paths)
    \/ Mp3Of(path) \in Range(file_paths)
    \/ \E k \in 1..Len(file_paths) : Mp3Of(file_paths[k]) = path

Transcriptions ==
    Cardinality({k \in 1..Len(log) : log[k].ev \in {"whisperx", "skipping"}})

\* C4: once every location is resolved, each location no resolver accepts
\* has been reported and left out of the file list, and every other
\* location, before or after it, is in the list with its files; when the
\* run is done each listed file has been through transcription.
C4_UnhandledDoesNotStopBatch ==
    Resolved =>
        /\ \A k \in 1..Len(locations) :
               LET location == locations[k]
               IN  IF Unaccepted(location)
                   THEN Reported(location) /\ location \notin Range(file_paths)
                   ELSE IF isdir(location)
                   THEN \A x \in CompatibleDescendants(fs, location) : Represented(x)
                   ELSE IF is_youtube_url(location)
                   THEN YoutubeSource_audio_file(location) \in Range(file_paths)
                   ELSE Compatible(location) => Represented(location)
        /\ pc = "done" => Transcriptions = Len(file_paths)

\* C5: only a location that no resolver accepts is reported as "could not
\* handle"; a directory without compatible files is not.
C5_EmptyDirectoryNotReported ==
    \A k \in 1..Len(log) :
        log[k].ev \in {"could_not_handle", "invalid_path"} => Unaccepted(log[k].arg)

\* The resolution engine is about to expand a directory.
DirectorySite ==
    /\ variant = "subgenx"
    /\ pc = "handle"
    /\ location_queue /= <<>>
    /\ isdir(Head(location_queue))
    /\ ~isfile(fs, Head(location_queue))
    /\ ~is_youtube_url(Head(location_queue))

\* subgen.py is about to add the files of a directory.
FolderSite ==
    /\ variant = "subgen"
    /\ pc = "resolve"
    /\ loc_i <= Len(locations)
    /\ isdir(locations[loc_i])
    /\ ~isfile(fs, locations[loc_i])

\* C6: the directory resolver returns a list of further locations, whatever
\* their number, whose elements are exactly the compatible descendants:
\* the engine puts them at the back of its queue and takes none of them for
\* a result, and subgen.py adds them to its file list.
C6_DirectoryReturnsList ==
    [][ /\ DirectorySite =>
              LET dir == Head(location_queue)
                  more == SubSeq(location_queue', Len(location_queue),
                                 Len(location_queue'))
              IN  /\ location_queue' = Tail(location_queue) \o more
                  /\ results' = results
                  /\ Range(more) = CompatibleDescendants(fs, dir)
                  /\ Len(more) = Cardinality(CompatibleDescendants(fs, dir))
        /\ FolderSite =>
              LET dir == locations[loc_i]
                  more == SubSeq(file_paths', Len(file_paths) + 1, Len(file_paths'))
              IN  /\ file_paths' = file_paths \o more
                  /\ Range(more) = CompatibleDescendants(fs, dir)
                  /\ Len(more) = Cardinality(CompatibleDescendants(fs, dir))
      ]_vars

AudioOf(path) == IF is_video_ext(splitext(path)[2]) THEN Mp3Of(path) ELSE path

\* C7: the file list only grows at its end, by the files of one location at
\* a time and in the order they were found: a resolved file goes to the end
\* of the results, a directory's files are taken in enumeration order behind
\* everything found before, and the results of a location are appended to
\* the list whole, with nothing left out for being there already.
C7_OrderKeptNoDedupe ==
    [][ /\ run' = run => IsPrefix(file_paths, file_paths')
        /\ (variant = "subgenx" /\ pc = "handle" /\ location_queue = <<>>) =>
               file_paths' = file_paths \o results
        /\ (variant = "subgenx" /\ pc = "handle" /\ location_queue /= <<>>
              /\ pc' /= "crashed") =>
               LET head == Head(location_queue)
                   found == CompatibleList(fs, head)
               IN  IF isfile(fs, head) /\ Compatible(head)
                   THEN /\ results' = Append(results, AudioOf(head))
                        /\ location_queue' = Tail(location_queue)
                   ELSE IF is_youtube_url(head)
                   THEN /\ results' = Append(results, YoutubeSource_audio_file(head))
                        /\ location_queue' = Tail(location_queue)
                   ELSE IF isdir(head)
                   THEN \/ /\ location_queue' = Tail(location_queue) \o found
                           /\ results' = results
                        \/ /\ location_queue' = Tail(location_queue)
                           /\ results' = results \o found
                   ELSE /\ results' = results
                        /\ location_queue' = Tail(location_queue)
        /\ (variant = "subgen" /\ pc = "resolve" /\ loc_i <= Len(locations)) =>
               LET file == locations[loc_i]
               IN  file_paths' = file_paths \o
                       (IF isfile(fs, file)
                        THEN IF Compatible(file) THEN <<file>> ELSE <<>>
                        ELSE IF isdir(file) THEN CompatibleList(fs, file)
                        ELSE <<>>)
      ]_vars

\* A video given directly and again through its directory: its mp3 is in
\* the list three times (given, found as the mp3, found as the video),
\* before the file of the subdirectory.
C7_Witness ==
    /\ variant = "subgenx"
    /\ locations = <<"d/b.mp4", "d">>
    /\ Resolved
    /\ file_paths = <<"d/b.mp3", "d/b.mp3", "d/b.mp3", "d/s/a.mp3">>

\* The host of the URL is a known video-hosting domain or a subdomain of one.
HostIsKnownDomain(url) ==
    LET host == lower(urlparse_netloc(url))
    IN  \E k \in 1..Len(youtube_domains) :
            \/ host = youtube_domains[k]
            \/ /\ Len(host) > Len(youtube_domains[k])
               /\ From(host, Len(host) - Len(youtube_domains[k])) =
                      "." \o youtube_domains[k]

\* C8: a location is downloaded as a remote video only if the host of its
\* URL is a known video-hosting domain or a subdomain of one.
C8_RemoteVideoByHost ==
    \A k \in 1..Len(log) : log[k].ev = "yt_dlp" => HostIsKnownDomain(log[k].arg)

\* The files that precede, in the resolved list, the one being transcoded.
EarlierFiles ==
    IF variant = "subgenx" THEN Len(file_paths) + Len(results) ELSE file_i - 1

\* C9: whenever the transcoding of a file starts, every earlier file of the
\* resolved list has been through transcription.
C9_OneFileAtATime ==
    [][ (Len(log') = Len(log) + 1 /\ log'[Len(log')].ev = "ffmpeg") =>
            Transcriptions = EarlierFiles
      ]_vars

\* Everything in the queue but the seed itself is a file that the audio or
\* the video source resolves to a single file.
QueueOneLevel ==
    pc = "handle" =>
        \/ location_queue = <<locations[loc_i]>>
        \/ \A k \in 1..Len(location_queue) :
               isfile(fs, location_queue[k]) /\ Compatible(location_queue[k])

\* C10: the worklist loop terminates: what a directory expansion enqueues
\* are files that resolve without enqueuing anything, and the queue of
\* every location becomes empty and the loop is left.
C10_WorklistTerminates ==
    /\ []QueueOneLevel
    /\ (pc = "handle") ~> (pc /= "handle")

\* A directory has been expanded to several files and its queue drained.
C10_Witness ==
    /\ variant = "subgenx"
    /\ locations[1] = "d"
    /\ loc_i = 2
    /\ pc = "resolve"
    /\ Len(file_paths) >= 2

\* C11: expanding a directory leaves the engine with exactly the work of
\* its compatible descendants given as locations of their own, in
\* enumeration order: each is queued to go through the resolver a direct
\* location goes through, none is taken for a result as it is, and so every
\* resolved path is the one direct resolution gives (a video's mp3, never
\* the video).
C11_DirectoryAsDirectLocations ==
    [][ /\ DirectorySite =>
              /\ location_queue' =
                     Tail(location_queue) \o CompatibleList(fs, Head(location_queue))
              /\ results' = results
        /\ variant = "subgenx" =>
              \A k \in 1..Len(results') : results'[k] = AudioOf(results'[k])
      ]_vars

\* The audio file the k-th entry of the file list is transcribed from.
ResolvedAudio(k) ==
    IF variant = "subgen" THEN AudioOf(file_paths[k]) ELSE file_paths[k]

\* C12: two distinct resolved audio files have distinct subtitle paths, and
\* in a run without force no file is skipped on a subtitle that the run
\* wrote for a different file.
C12_DistinctSubtitlePaths ==
    ~force =>
        /\ Resolved =>
               \A i, j \in 1..Len(file_paths) :
                   Key(ResolvedAudio(i)) /= Key(ResolvedAudio(j)) =>
                       Key(SubtitleOf(ResolvedAudio(i))) /=
                           Key(SubtitleOf(ResolvedAudio(j)))
        /\ \A k, l \in 1..Len(log) :
               (/\ k < l
                /\ log[k].ev = "whisperx"
                /\ log[l].ev = "skipping"
                /\ Key(log[k].out) = Key(log[l].out)) =>
                   Key(log[k].arg) = Key(log[l].arg)

====
